---- MODULE Spec2Model ----
(***************************************************************************)
(* Model of encode.py (Delta-Image-Archive): pairwise scoring of frames,   *)
(* greedy maximum spanning forest over the scores (DisjointSetUnion),      *)
(* root selection and BFS orientation, manifest, root copies, concurrent   *)
(* diff encoding and the final archive.                                    *)
(*                                                                         *)
(* Frame ids are the strings "0", "1", ... in the code (str(i), compared   *)
(* through key=int where order matters); the model uses the naturals       *)
(* 0..n-1, which is the order id_to_path.keys() iterates in.               *)
(***************************************************************************)
EXTENDS Integers, Sequences, FiniteSets, TLC

\* ---------------------------------------------------------------- bounds
MaxFrames == 3
MaxScore == 3
MaxSize == 2
MaxPixels == 2
MaxChannel == 1

\* the failure sentinel of calculate_similarity_score
Sentinel == -1

FrameIds(k) == 0 .. (k - 1)

\* combinations(image_paths_rel, 2): unordered pairs, first id < second id
AllPairs(k) == { pr \in FrameIds(k) \X FrameIds(k) : pr[1] < pr[2] }

ScoreValues == {Sentinel} \cup (1 .. MaxScore)
SizeValues == 1 .. MaxSize

SeqToSet(s) == { s[i] : i \in 1 .. Len(s) }

\* ------------------------------------------------------ DisjointSetUnion
\* __init__: every item is its own parent
DsuInit(items) == [ x \in items |-> x ]

RECURSIVE FindRoot(_, _)
\* the value find(item) returns
FindRoot(parent, item) ==
    IF parent[item] = item THEN item ELSE FindRoot(parent, parent[item])

RECURSIVE FindParent(_, _)
\* self.parent after find(item): every node on the path points at the root
FindParent(parent, item) ==
    IF parent[item] = item
    THEN parent
    ELSE LET p2 == FindParent(parent, parent[item])
         IN  [p2 EXCEPT ![item] = FindRoot(parent, parent[item])]

\* a union that hangs item2 itself, not its root, under item1
UnionAttachItems(parent, item1, item2) ==
    LET p1 == FindParent(parent, item1)
        root1 == FindRoot(parent, item1)
        p2 == FindParent(p1, item2)
        root2 == FindRoot(p1, item2)
    IN  IF root1 # root2
        THEN << [p2 EXCEPT ![item2] = item1], TRUE >>
        ELSE << p2, FALSE >>

\* a union that reports a merge whether or not the roots differ
UnionAlwaysTrue(parent, item1, item2) ==
    LET p1 == FindParent(parent, item1)
        root1 == FindRoot(parent, item1)
        p2 == FindParent(p1, item2)
        root2 == FindRoot(p1, item2)
    IN  << [p2 EXCEPT ![root2] = root1], TRUE >>

\* union(item1, item2): <<self.parent afterwards, returned flag>>
Union(parent, item1, item2) ==
    LET p1 == FindParent(parent, item1)
        root1 == FindRoot(parent, item1)
        p2 == FindParent(p1, item2)
        root2 == FindRoot(p1, item2)
    IN  IF root1 # root2
        THEN << [p2 EXCEPT ![root2] = root1], TRUE >>
        ELSE << p2, FALSE >>

\* ------------------------------------------------------------- the sort
RECURSIVE InsertDesc(_, _)
\* insert triple t behind every element whose score is >= t's score
InsertDesc(sorted, t) ==
    IF sorted = << >> THEN << t >>
    ELSE IF Head(sorted)[1] >= t[1]
         THEN << Head(sorted) >> \o InsertDesc(Tail(sorted), t)
         ELSE << t >> \o sorted

RECURSIVE InsertAsc(_, _)
\* insert triple t behind every element whose score is <= t's score
InsertAsc(sorted, t) ==
    IF sorted = << >> THEN << t >>
    ELSE IF Head(sorted)[1] <= t[1]
         THEN << Head(sorted) >> \o InsertAsc(Tail(sorted), t)
         ELSE << t >> \o sorted

RECURSIVE SortAscending(_)
\* the sort without reverse=True
SortAscending(scores) ==
    IF scores = << >> THEN << >>
    ELSE InsertAsc(SortAscending(SubSeq(scores, 1, Len(scores) - 1)),
                   scores[Len(scores)])

RECURSIVE SortScores(_)
\* all_scores.sort(key=lambda x: x[0], reverse=True): stable, descending score
SortScores(scores) ==
    IF scores = << >> THEN << >>
    ELSE InsertDesc(SortScores(SubSeq(scores, 1, Len(scores) - 1)),
                    scores[Len(scores)])

\* ------------------------------------------------- spanning forest loop
RECURSIVE Kruskal(_, _, _, _)
\* for score, u_id, v_id in all_scores: if dsu.union(...): append both ways
\* returns [parent, adj] after the triples i .. Len(sorted)
Kruskal(sorted, i, parent, adj) ==
    IF i > Len(sorted) THEN [parent |-> parent, adj |-> adj]
    ELSE LET u == sorted[i][2]
             v == sorted[i][3]
             r == Union(parent, u, v)
         IN  IF r[2]
             THEN Kruskal(sorted, i + 1, r[1],
                          [adj EXCEPT ![u] = Append(@, v), ![v] = Append(@, u)])
             ELSE Kruskal(sorted, i + 1, r[1], adj)

\* ------------------------------------------------------- graph builder
RECURSIVE ScanNeighbors(_, _, _, _)
\* for neighbor_id in adjacency_list[node_id]: unseen ones are marked and queued
ScanNeighbors(nbrs, i, q, seen) ==
    IF i > Len(nbrs) THEN << q, seen >>
    ELSE IF nbrs[i] \notin seen
         THEN ScanNeighbors(nbrs, i + 1, Append(q, nbrs[i]), seen \cup {nbrs[i]})
         ELSE ScanNeighbors(nbrs, i + 1, q, seen)

RECURSIVE ComponentOf(_, _, _, _)
\* first traversal (lines 164-172): component_node_ids in BFS order
ComponentOf(adj, q, comp, seen) ==
    IF q = << >> THEN comp
    ELSE LET node == Head(q)
             r == ScanNeighbors(adj[node], 1, Tail(q), seen)
         IN  ComponentOf(adj, r[1], Append(comp, node), r[2])

RECURSIVE MinBySize(_, _, _, _)
\* min(component_node_ids, key=st_size): the first element of smallest key
MinBySize(comp, i, best, size) ==
    IF i > Len(comp) THEN best
    ELSE IF size[comp[i]] < size[best]
         THEN MinBySize(comp, i + 1, comp[i], size)
         ELSE MinBySize(comp, i + 1, best, size)

\* a root choice that ignores the sizes
OptimalRootFirstSeen(comp, size) == comp[1]

OptimalRoot(comp, size) == MinBySize(comp, 2, comp[1], size)

RECURSIVE AdoptChildrenFlat(_, _, _, _, _, _)
\* an inner loop that records the parent's own parent, where it has one
AdoptChildrenFlat(nbrs, i, par, q, visited, deps) ==
    IF i > Len(nbrs) THEN << q, visited, deps >>
    ELSE IF nbrs[i] \notin visited
         THEN AdoptChildrenFlat(nbrs, i + 1, par, Append(q, nbrs[i]),
                  visited \cup {nbrs[i]},
                  (nbrs[i] :> (IF par \in DOMAIN deps THEN deps[par] ELSE par)) @@ deps)
         ELSE AdoptChildrenFlat(nbrs, i + 1, par, q, visited, deps)

RECURSIVE AdoptChildren(_, _, _, _, _, _)
\* for child_id in adjacency_list[parent_id]: unvisited ones get parent_id
AdoptChildren(nbrs, i, par, q, visited, deps) ==
    IF i > Len(nbrs) THEN << q, visited, deps >>
    ELSE IF nbrs[i] \notin visited
         THEN AdoptChildren(nbrs, i + 1, par, Append(q, nbrs[i]),
                            visited \cup {nbrs[i]}, (nbrs[i] :> par) @@ deps)
         ELSE AdoptChildren(nbrs, i + 1, par, q, visited, deps)

RECURSIVE Orient(_, _, _, _)
\* second traversal (lines 177-183): <<visited_ids, dependencies_by_id>>
Orient(adj, q, visited, deps) ==
    IF q = << >> THEN << visited, deps >>
    ELSE LET par == Head(q)
             r == AdoptChildren(adj[par], 1, par, Tail(q), visited, deps)
         IN  Orient(adj, r[1], r[2], r[3])

RECURSIVE RootAndOrientUnmarked(_, _, _, _, _, _)
\* the outer loop without visited_ids.add(optimal_root_id)
RootAndOrientUnmarked(k, image_id, adj, size, roots, st) ==
    IF image_id >= k THEN [roots |-> roots, deps |-> st[2], visited |-> st[1]]
    ELSE IF image_id \in st[1]
         THEN RootAndOrientUnmarked(k, image_id + 1, adj, size, roots, st)
         ELSE LET comp == ComponentOf(adj, << image_id >>, << >>, {image_id})
                  root == OptimalRoot(comp, size)
              IN  RootAndOrientUnmarked(k, image_id + 1, adj, size, Append(roots, root),
                      Orient(adj, << root >>, st[1], st[2]))

RECURSIVE RootAndOrientEveryFrame(_, _, _, _, _, _)
\* the outer loop without the `image_id not in visited_ids` test
RootAndOrientEveryFrame(k, image_id, adj, size, roots, st) ==
    IF image_id >= k THEN [roots |-> roots, deps |-> st[2], visited |-> st[1]]
    ELSE LET comp == ComponentOf(adj, << image_id >>, << >>, {image_id})
             root == OptimalRoot(comp, size)
         IN  RootAndOrientEveryFrame(k, image_id + 1, adj, size, Append(roots, root),
                 Orient(adj, << root >>, st[1] \cup {root}, st[2]))

RECURSIVE RootAndOrient(_, _, _, _, _, _)
\* for image_id in id_to_path.keys() (lines 162-183), from image_id on
RootAndOrient(k, image_id, adj, size, roots, st) ==
    IF image_id >= k THEN [roots |-> roots, deps |-> st[2], visited |-> st[1]]
    ELSE IF image_id \in st[1]
         THEN RootAndOrient(k, image_id + 1, adj, size, roots, st)
         ELSE LET comp == ComponentOf(adj, << image_id >>, << >>, {image_id})
                  root == OptimalRoot(comp, size)
              IN  RootAndOrient(k, image_id + 1, adj, size, Append(roots, root),
                      Orient(adj, << root >>, st[1] \cup {root}, st[2]))

EmptyMap == [ x \in {} |-> 0 ]

\* lines 153-183 on the collected scores: the sort, the forest, the roots
BuildGraph(k, scores, size) ==
    LET sorted == SortScores(scores)
        f == Kruskal(sorted, 1, DsuInit(FrameIds(k)), [ x \in FrameIds(k) |-> << >> ])
        g == RootAndOrient(k, 0, f.adj, size, << >>, << {}, EmptyMap >>)
    IN  [sorted |-> sorted, parent |-> f.parent, adj |-> f.adj,
         roots |-> g.roots, deps |-> g.deps, visited |-> g.visited]

RECURSIVE SortedIds(_)
\* sorted(root_image_ids, key=int)
SortedIds(S) ==
    IF S = {} THEN << >>
    ELSE LET m == CHOOSE x \in S : \A y \in S : x <= y
         IN  << m >> \o SortedIds(S \ {m})

\* map_data without the constant image_map: root_images and dependencies
Manifest(roots, deps) == [root_images |-> SortedIds(SeqToSet(roots)), dependencies |-> deps]

\* ------------------------------------------------------------ the run
\* a run that goes on where line 130 returns for fewer than one image only
EnoughFramesOffByOne(k) == k >= 1

\* the negation of line 130, `len(image_paths_rel) < 2`
EnoughFrames(k) == k >= 2

VARIABLES
    n,                  \* len(image_paths_rel)
    st_size,            \* frame id -> on-disk byte size of its source file
    pair_score,         \* pair -> what calculate_similarity_score returns for it
    pc,                 \* where main() is
    tmp_exists,         \* the TemporaryDirectory exists
    pending1,           \* Phase 1 futures not yet taken from as_completed
    all_scores,
    dsu_parent,         \* dsu.parent
    adjacency_list,
    root_image_ids,
    dependencies_by_id,
    visited_ids,
    out_map,            \* optimization_map.json in output_dir: {} or {its content}
    out_files,          \* output_dir: frame id -> content of the file at its path
    copy_idx,           \* position of the root-copy loop in root_image_ids
    pending2,           \* Phase 2 futures not yet taken from as_completed
    processed_count,
    encode_result,      \* child id -> what future.result() gave (taken futures)
    zip_state,          \* the .dia file: "absent", "open" or "closed"
    zip_entries,        \* its entries
    img_current,        \* process_image: the child's pixels after convert('RGB')
    img_base,           \* process_image: the parent's pixels after convert('RGB')
    sanitized_image,    \* process_image: the RGBA pixels handed to the encoder
    sim_score,          \* calculate_similarity_score: the value returned
    diff_pc,            \* "idle", "loaded", "encoded" or "scored"
    dsu_last            \* the last DisjointSetUnion call: its arguments, the parent
                        \* map it found and the value it returned

vars == << n, st_size, pair_score, pc, tmp_exists, pending1, all_scores, dsu_parent,
           adjacency_list, root_image_ids, dependencies_by_id, visited_ids, out_map,
           out_files, copy_idx, pending2, processed_count, encode_result,
           zip_state, zip_entries, img_current, img_base, sanitized_image, sim_score,
           diff_pc, dsu_last >>

runVars == << n, st_size, pair_score, pc, tmp_exists, pending1, all_scores, dsu_parent,
              adjacency_list, root_image_ids, dependencies_by_id, visited_ids, out_map,
              out_files, copy_idx, pending2, processed_count, encode_result,
              zip_state, zip_entries >>
runRestVars == << n, st_size, pair_score, pc, tmp_exists, pending1, all_scores,
                  adjacency_list, root_image_ids, dependencies_by_id, visited_ids, out_map,
                  out_files, copy_idx, pending2, processed_count, encode_result,
                  zip_state, zip_entries >>
pixelVars == << img_current, img_base, sanitized_image, sim_score, diff_pc >>
sideVars == << pixelVars, dsu_last >>

inputVars == << n, st_size, pair_score >>
graphVars == << dsu_parent, adjacency_list, root_image_ids, dependencies_by_id, visited_ids >>
zipVars == << zip_state, zip_entries >>

\* contents a file of the output tree can have
CopyOf(id) == [kind |-> "copy", frame |-> id, base |-> id]
DiffOf(child, parent) == [kind |-> "diff", frame |-> child, base |-> parent]
Truncated(child) == [kind |-> "truncated", frame |-> child, base |-> child]

NoEntries == [map |-> {}, files |-> EmptyMap]

\* no process_image call is looked into
PixelsIdle ==
    /\ img_current = << >>
    /\ img_base = << >>
    /\ sanitized_image = << >>
    /\ sim_score = 0
    /\ diff_pc = "idle"

\* no DisjointSetUnion call is looked into
NoCall == [op |-> "none", x |-> 0, y |-> 0, before |-> EmptyMap, found |-> 0, merged |-> FALSE]

DsuIdle == dsu_last = NoCall

RunInit ==
    /\ n \in 0 .. MaxFrames
    /\ st_size \in [FrameIds(n) -> SizeValues]
    /\ pair_score \in [AllPairs(n) -> ScoreValues]
    /\ pc = "scan"
    /\ tmp_exists = TRUE
    /\ pending1 = {}
    /\ all_scores = << >>
    /\ dsu_parent = EmptyMap
    /\ adjacency_list = EmptyMap
    /\ root_image_ids = << >>
    /\ dependencies_by_id = EmptyMap
    /\ visited_ids = {}
    /\ out_map = {}
    /\ out_files = EmptyMap
    /\ copy_idx = 1
    /\ pending2 = {}
    /\ processed_count = 0
    /\ encode_result = EmptyMap
    /\ zip_state = "absent"
    /\ zip_entries = NoEntries

\* leaving the `with tempfile.TemporaryDirectory()` block removes output_dir
RemoveTemp ==
    /\ tmp_exists' = FALSE
    /\ out_map' = {}
    /\ out_files' = EmptyMap

\* lines 130-132: fewer than two images, return
TooFewFrames ==
    /\ pc = "scan"
    /\ ~EnoughFrames(n)
    /\ pc' = "stopped"
    /\ RemoveTemp
    /\ UNCHANGED sideVars
    /\ UNCHANGED << inputVars, pending1, all_scores, graphVars, copy_idx, pending2,
                    processed_count, encode_result, zipVars >>

\* lines 138-141: every pair is submitted to the Phase 1 pool
SubmitScoring ==
    /\ pc = "scan"
    /\ EnoughFrames(n)
    /\ pending1' = AllPairs(n)
    /\ pc' = "score"
    /\ UNCHANGED sideVars
    /\ UNCHANGED << inputVars, tmp_exists, all_scores, graphVars, out_map, out_files,
                    copy_idx, pending2, processed_count, encode_result, zipVars >>

\* a collector without the `score != -1` test
CollectUnfiltered(scores, pair, score) == Append(scores, << score, pair[1], pair[2] >>)

\* a collector whose append overwrites the newest element (a lost update)
CollectLostUpdate(scores, pair, score) ==
    IF score = Sentinel THEN scores
    ELSE IF scores = << >> THEN << << score, pair[1], pair[2] >> >>
    ELSE [scores EXCEPT ![Len(scores)] = << score, pair[1], pair[2] >>]

\* lines 145-148: what one finished future adds to all_scores
Collect(scores, pair, score) ==
    IF score # Sentinel THEN Append(scores, << score, pair[1], pair[2] >>) ELSE scores

\* lines 142-151: as_completed yields the future of some pair
ScoreCompleted(pair) ==
    /\ pc = "score"
    /\ pair \in pending1
    /\ all_scores' = Collect(all_scores, pair, pair_score[pair])
    /\ pending1' = pending1 \ {pair}
    /\ UNCHANGED sideVars
    /\ UNCHANGED << inputVars, pc, tmp_exists, graphVars, out_map, out_files, copy_idx,
                    pending2, processed_count, encode_result, zipVars >>

\* a builder that starts as soon as the first result is in
Phase1FirstResult == pending1 # AllPairs(n)

\* the as_completed loop and the executor's with-block end once every future is done
Phase1Drained == pending1 = {}

\* lines 153-183: sort, spanning forest, roots and dependency map
BuildForest ==
    /\ pc = "score"
    /\ Phase1Drained
    /\ LET g == BuildGraph(n, all_scores, st_size)
       IN  /\ all_scores' = g.sorted
           /\ dsu_parent' = g.parent
           /\ adjacency_list' = g.adj
           /\ root_image_ids' = g.roots
           /\ dependencies_by_id' = g.deps
           /\ visited_ids' = g.visited
    /\ pc' = "manifest"
    /\ UNCHANGED sideVars
    /\ UNCHANGED << inputVars, tmp_exists, pending1, out_map, out_files, copy_idx,
                    pending2, processed_count, encode_result, zipVars >>

\* lines 185-188: optimization_map.json is written into output_dir
WriteManifest ==
    /\ pc = "manifest"
    /\ out_map' = { Manifest(root_image_ids, dependencies_by_id) }
    /\ pc' = "copy"
    /\ UNCHANGED sideVars
    /\ UNCHANGED << inputVars, tmp_exists, pending1, all_scores, graphVars, out_files,
                    copy_idx, pending2, processed_count, encode_result, zipVars >>

\* lines 192-196: one turn of the root-copy loop
CopyRoot ==
    /\ pc = "copy"
    /\ copy_idx <= Len(root_image_ids)
    /\ LET root_id == root_image_ids[copy_idx]
       IN  out_files' = (root_id :> CopyOf(root_id)) @@ out_files
    /\ copy_idx' = copy_idx + 1
    /\ UNCHANGED sideVars
    /\ UNCHANGED << inputVars, pc, tmp_exists, pending1, all_scores, graphVars, out_map,
                    pending2, processed_count, encode_result, zipVars >>

\* lines 198-202: the counters, then every dependency is submitted to the Phase 2 pool
SubmitEncoding ==
    /\ pc = "copy"
    /\ copy_idx > Len(root_image_ids)
    /\ processed_count' = Len(root_image_ids)
    /\ pending2' = DOMAIN dependencies_by_id
    /\ pc' = "encode"
    /\ UNCHANGED sideVars
    /\ UNCHANGED << inputVars, tmp_exists, pending1, all_scores, graphVars, out_map,
                    out_files, copy_idx, encode_result, zipVars >>

\* how a process_image call can end: it returns True after writing the diff; it fails
\* before open(output_path, "wb") succeeds (mkdir, Image.open, convert, oxipng, open);
\* or f.write raises after open() has created the file
EncodeOutcomes == {"ok", "fail_before_open", "fail_in_write"}

\* what an encoder would write had it read the parent from the output tree
Rediff(child, parent) == [kind |-> "rediff", frame |-> child, base |-> parent]

\* a process_image that reads its base image from the output tree: against a root's
\* verbatim copy the bytes are those of the source, against an encoded parent they
\* are not, and with no file there yet the call fails
ProcessImageFromOutput(files, child, parent, outcome) ==
    CASE outcome = "ok" /\ parent \notin DOMAIN files -> << files, FALSE >>
      [] outcome = "ok" /\ parent \in DOMAIN files ->
            IF files[parent] = CopyOf(parent)
            THEN << (child :> DiffOf(child, parent)) @@ files, TRUE >>
            ELSE << (child :> Rediff(child, parent)) @@ files, TRUE >>
      [] outcome = "fail_before_open" -> << files, FALSE >>
      [] outcome = "fail_in_write" -> << (child :> Truncated(child)) @@ files, FALSE >>

\* process_image (lines 64-101): <<output tree afterwards, returned flag>>
ProcessImage(files, child, parent, outcome) ==
    CASE outcome = "ok" -> << (child :> DiffOf(child, parent)) @@ files, TRUE >>
      [] outcome = "fail_before_open" -> << files, FALSE >>
      [] outcome = "fail_in_write" -> << (child :> Truncated(child)) @@ files, FALSE >>

\* a loop in which the failure of a unit ends the run: future.result() re-raises an
\* exception process_image did not catch
EncodeCompletedRaises(cid, outcome) ==
    /\ pc = "encode"
    /\ cid \in pending2
    /\ LET r == ProcessImage(out_files, cid, dependencies_by_id[cid], outcome)
       IN  IF r[2]
           THEN /\ out_files' = r[1]
                /\ encode_result' = (cid :> r[2]) @@ encode_result
                /\ processed_count' = processed_count + 1
                /\ pending2' = pending2 \ {cid}
                /\ UNCHANGED << pc, tmp_exists, out_map >>
           ELSE /\ RemoveTemp
                /\ pc' = "crashed"
                /\ UNCHANGED << encode_result, processed_count, pending2 >>
    /\ UNCHANGED sideVars
    /\ UNCHANGED << inputVars, pending1, all_scores, graphVars, copy_idx, zipVars >>

\* lines 203-206: as_completed yields the future of child cid
EncodeCompleted(cid, outcome) ==
    /\ pc = "encode"
    /\ cid \in pending2
    /\ LET r == ProcessImage(out_files, cid, dependencies_by_id[cid], outcome)
       IN  /\ out_files' = r[1]
           /\ encode_result' = (cid :> r[2]) @@ encode_result
           /\ processed_count' = IF r[2] THEN processed_count + 1 ELSE processed_count
    /\ pending2' = pending2 \ {cid}
    /\ UNCHANGED sideVars
    /\ UNCHANGED << inputVars, pc, tmp_exists, pending1, all_scores, graphVars, out_map,
                    copy_idx, zipVars >>

Phase2Drained == pending2 = {}

\* line 209: ZipFile(output_zip_path, 'w') creates the archive file
OpenZip ==
    /\ pc = "encode"
    /\ Phase2Drained
    /\ zip_state' = "open"
    /\ pc' = "zip"
    /\ UNCHANGED sideVars
    /\ UNCHANGED << inputVars, tmp_exists, pending1, all_scores, graphVars, out_map,
                    out_files, copy_idx, pending2, processed_count, encode_result,
                    zip_entries >>

\* lines 210-213: every file under output_dir is added, then the archive is closed
WriteZip ==
    /\ pc = "zip"
    /\ zip_entries' = [map |-> out_map, files |-> out_files]
    /\ zip_state' = "closed"
    /\ pc' = "cleanup"
    /\ UNCHANGED sideVars
    /\ UNCHANGED << inputVars, tmp_exists, pending1, all_scores, graphVars, out_map,
                    out_files, copy_idx, pending2, processed_count, encode_result >>

\* line 214-215: the with-block of the temporary directory ends
Finish ==
    /\ pc = "cleanup"
    /\ RemoveTemp
    /\ pc' = "done"
    /\ UNCHANGED sideVars
    /\ UNCHANGED << inputVars, pending1, all_scores, graphVars, copy_idx, pending2,
                    processed_count, encode_result, zipVars >>

\* an exception that ends the run while the temporary directory is left behind
UncaughtErrorLeavesTemp ==
    /\ pc \in {"manifest", "copy", "zip"}
    /\ pc' = "crashed"
    /\ UNCHANGED sideVars
    /\ UNCHANGED << inputVars, tmp_exists, out_map, out_files, pending1, all_scores,
                    graphVars, copy_idx, pending2, processed_count, encode_result, zipVars >>

\* an exception main() does not catch (json.dump / open at 187-188, mkdir / copy2 at
\* 195-196, zipf.write at 213) unwinds through the with-block
UncaughtError ==
    /\ pc \in {"manifest", "copy", "zip"}
    /\ RemoveTemp
    /\ pc' = "crashed"
    /\ UNCHANGED sideVars
    /\ UNCHANGED << inputVars, pending1, all_scores, graphVars, copy_idx, pending2,
                    processed_count, encode_result, zipVars >>

Next ==
    \/ TooFewFrames
    \/ SubmitScoring
    \/ \E pair \in pending1 : ScoreCompleted(pair)
    \/ BuildForest
    \/ WriteManifest
    \/ CopyRoot
    \/ SubmitEncoding
    \/ \E cid \in pending2, outcome \in EncodeOutcomes : EncodeCompleted(cid, outcome)
    \/ OpenZip
    \/ WriteZip
    \/ Finish
    \/ UncaughtError

Init == RunInit /\ PixelsIdle /\ DsuIdle

Spec == Init /\ [][Next]_vars

\* the steps of the coordinating thread around the graph builder, when none of its
\* own file operations raises
MainStep ==
    \/ TooFewFrames
    \/ SubmitScoring
    \/ WriteManifest
    \/ CopyRoot
    \/ SubmitEncoding
    \/ OpenZip
    \/ WriteZip
    \/ Finish

\* a Phase 1 worker finishes a comparison and the loop at line 142 takes it
ScoringStep == \E pair \in pending1 : ScoreCompleted(pair)

\* a Phase 2 worker finishes an encoding, well or badly, and the loop at line 203
\* takes it
EncodingStep == \E cid \in pending2, outcome \in EncodeOutcomes : EncodeCompleted(cid, outcome)

NextFair == MainStep \/ BuildForest \/ ScoringStep \/ EncodingStep

\* the states in which the graph builder is the main thread's next step: exactly
\* those where <<BuildForest>>_vars is enabled, since the step always changes pc
BuilderDue == pc = "score" /\ Phase1Drained

\* the run under fair scheduling: the interpreter keeps running the main thread, and
\* each pool runs every unit submitted to it to its end (the with-blocks at lines 140
\* and 201 wait for all futures). A BuildForest step leaves BuilderDue, so weak
\* fairness of BuildForest is []<>~BuilderDue, written that way to keep the graph
\* builder out of the evaluation of ENABLED.
FairSpec ==
    /\ Init
    /\ [][NextFair]_vars
    /\ WF_vars(MainStep)
    /\ []<>~BuilderDue
    /\ WF_vars(ScoringStep)
    /\ WF_vars(EncodingStep)

\* ------------------------------------------- the pixels of process_image
\* alpha of a pixel the mask marks, line 74
Opaque == 255

Channels == 0 .. MaxChannel
Pixels == Channels \X Channels \X Channels

\* the RGB images of w pixels
Images(w) == [1 .. w -> Pixels]

Abs(x) == IF x < 0 THEN -x ELSE x

\* ImageChops.difference on one pixel: the absolute difference of every channel
Difference(a, b) == << Abs(a[1] - b[1]), Abs(a[2] - b[2]), Abs(a[3] - b[3]) >>

\* convert('L') on one RGB pixel: the image library's ITU-R 601-2 luma in 16-bit
\* fixed point, rounded: (19595 R + 38470 G + 7471 B + 0x8000) >> 16
ConvertL(px) == (px[1] * 19595 + px[2] * 38470 + px[3] * 7471 + 32768) \div 65536

\* .point(lambda p: 255 if p > 0 else 0)
Threshold(v) == IF v > 0 THEN Opaque ELSE 0

\* lines 72-78: the child's colours with the thresholded gray difference as alpha
Sanitize(current, base) ==
    [ i \in DOMAIN current |->
        << current[i][1], current[i][2], current[i][3],
           Threshold(ConvertL(Difference(current[i], base[i]))) >> ]

\* the run's variables, dsu.parent apart, stay as a scan of an empty directory
\* leaves them
RunRestIdle ==
    /\ n = 0
    /\ st_size = EmptyMap
    /\ pair_score = EmptyMap
    /\ pc = "scan"
    /\ tmp_exists = TRUE
    /\ pending1 = {}
    /\ all_scores = << >>
    /\ adjacency_list = EmptyMap
    /\ root_image_ids = << >>
    /\ dependencies_by_id = EmptyMap
    /\ visited_ids = {}
    /\ out_map = {}
    /\ out_files = EmptyMap
    /\ copy_idx = 1
    /\ pending2 = {}
    /\ processed_count = 0
    /\ encode_result = EmptyMap
    /\ zip_state = "absent"
    /\ zip_entries = NoEntries

RunIdle == RunRestIdle /\ dsu_parent = EmptyMap

\* lines 52-53 and 67-71: two images of the same shape and mode are opened
InitDiff ==
    /\ RunIdle
    /\ DsuIdle
    /\ sim_score = 0
    /\ \E w \in 1 .. MaxPixels :
          /\ img_current \in Images(w)
          /\ img_base \in Images(w)
    /\ sanitized_image = << >>
    /\ diff_pc = "loaded"

\* lines 72-78 of process_image
EncodeDiff ==
    /\ diff_pc = "loaded"
    /\ sanitized_image' = Sanitize(img_current, img_base)
    /\ diff_pc' = "encoded"
    /\ UNCHANGED << img_current, img_base, sim_score, dsu_last >>
    /\ UNCHANGED runVars

\* lines 56-60: total_pixels minus the positions whose gray difference is non-zero
SimilarityScore(img1, img2) ==
    Len(img1) - Cardinality({ i \in DOMAIN img1 : ConvertL(Difference(img1[i], img2[i])) # 0 })

\* lines 52-60 of calculate_similarity_score on two RGB images of one size
ScoreImages ==
    /\ diff_pc = "loaded"
    /\ sim_score' = SimilarityScore(img_current, img_base)
    /\ diff_pc' = "scored"
    /\ UNCHANGED << img_current, img_base, sanitized_image, dsu_last >>
    /\ UNCHANGED runVars

NextDiff == EncodeDiff \/ ScoreImages

SpecDiff == InitDiff /\ [][NextDiff]_vars

\* ===================================================== properties
\* the graph builder has run
Built == pc \in {"manifest", "copy", "encode", "zip", "cleanup", "done", "crashed"}

Frames == FrameIds(n)
Roots == SeqToSet(root_image_ids)
Children == DOMAIN dependencies_by_id

\* the pairs whose comparison gave a score
ValidPairs == { pr \in AllPairs(n) : pair_score[pr] # Sentinel }
ValidTriples == { << pair_score[pr], pr[1], pr[2] >> : pr \in ValidPairs }

\* u and v are joined by a recorded adjacency edge
ForestEdge(u, v) ==
    \/ v \in SeqToSet(adjacency_list[u])
    \/ u \in SeqToSet(adjacency_list[v])

ScoreOf(u, v) == IF u < v THEN pair_score[<< u, v >>] ELSE pair_score[<< v, u >>]

RECURSIVE ReachVia(_, _)
\* the frames reachable from the set S over forest edges of score >= floor
ReachVia(S, floor) ==
    LET more == { f \in Frames \ S :
                    \E g \in S : ForestEdge(g, f) /\ ScoreOf(g, f) >= floor }
    IN  IF more = {} THEN S ELSE ReachVia(S \cup more, floor)

\* the connected component of f in the forest
ComponentSet(f) == ReachVia({f}, Sentinel)

RECURSIVE ChainReachesRoot(_, _)
\* following parent entries from f ends at a root without meeting a frame of seen
ChainReachesRoot(f, seen) ==
    IF f \in Roots THEN TRUE
    ELSE IF f \notin Children THEN FALSE
    ELSE IF dependencies_by_id[f] \in seen THEN FALSE
    ELSE ChainReachesRoot(dependencies_by_id[f], seen \cup {dependencies_by_id[f]})

\* C1: after the graph builder the dependency map is acyclic: the frames with a
\* parent entry are exactly the non-roots, the root list names no frame twice, and
\* the parent chain of every non-root ends at a root without repeating a frame.
C1_DependencyForest ==
    Built =>
        /\ Roots \subseteq Frames
        /\ Cardinality(Roots) = Len(root_image_ids)
        /\ Children = Frames \ Roots
        /\ \A f \in Children : dependencies_by_id[f] \in Frames \ {f}
        /\ \A f \in Frames \ Roots : ChainReachesRoot(f, {f})

\* a three-frame chain: a non-root whose parent is itself a non-root
C1_Witness ==
    /\ Built
    /\ \E f \in Children : dependencies_by_id[f] \in Children

\* C2: the adjacency is a maximum spanning forest of the validly scored pairs: a
\* scored pair that is no forest edge is joined by forest edges that all score at
\* least as much as the pair.
C2_MaximumSpanningForest ==
    Built =>
        \A pr \in ValidPairs :
            \/ ForestEdge(pr[1], pr[2])
            \/ pr[2] \in ReachVia({pr[1]}, pair_score[pr])

\* a scored pair left out of the forest, below a forest edge of higher score
C2_Witness ==
    /\ Built
    /\ \E pr \in ValidPairs, qr \in ValidPairs :
          /\ ~ForestEdge(pr[1], pr[2])
          /\ ForestEdge(qr[1], qr[2])
          /\ pair_score[qr] > pair_score[pr]

\* C3: every component has a root, and no frame of a component is strictly smaller
\* on disk than the component's root.
C3_RootMinimality ==
    Built =>
        /\ \A f \in Frames : ComponentSet(f) \cap Roots # {}
        /\ \A r \in Roots : \A f \in ComponentSet(r) : st_size[r] <= st_size[f]

\* a root that is not the first frame of its component and is strictly smaller
C3_Witness ==
    /\ Built
    /\ \E r \in Roots : \E f \in ComponentSet(r) : f < r /\ st_size[r] < st_size[f]

\* the orders in which the Phase 1 futures can have delivered the scores
CompletionOrders(scores) ==
    { o \in [1 .. Len(scores) -> SeqToSet(scores)] : SeqToSet(o) = SeqToSet(scores) }

ManifestOf(g) == Manifest(g.roots, g.deps)

\* C4: the manifest is the same for every completion order of the scoring futures.
C4_ManifestDeterministic ==
    Built =>
        \A o \in CompletionOrders(all_scores) :
            ManifestOf(BuildGraph(n, o, st_size))
                = Manifest(root_image_ids, dependencies_by_id)

\* the Phase 2 units that failed
FailedChildren == { c \in DOMAIN encode_result : ~encode_result[c] }
EncodedChildren == { c \in DOMAIN encode_result : encode_result[c] }

\* C6: a frame whose process_image call failed is not counted, has no file in the
\* output tree and no entry in the archive, the run goes on, and every other frame
\* is written and archived.
C6_EncodingFailureIsolated ==
    /\ pc \in {"encode", "zip", "cleanup"} =>
          /\ processed_count = Len(root_image_ids) + Cardinality(EncodedChildren)
          /\ \A c \in FailedChildren : c \notin DOMAIN out_files
          /\ \A c \in EncodedChildren : c \in DOMAIN out_files
          /\ Roots \subseteq DOMAIN out_files
    /\ zip_state = "closed" =>
          /\ \A c \in FailedChildren : c \notin DOMAIN zip_entries.files
          /\ (Frames \ FailedChildren) \subseteq DOMAIN zip_entries.files

\* C7: nothing after Phase 1 happens while a scoring future is pending, the forest
\* is built from every valid score, and the archive is not touched while an encoding
\* future is pending.
C7_PhaseBarrier ==
    /\ (Built \/ root_image_ids # << >> \/ out_map # {} \/ DOMAIN out_files # {}
              \/ pending2 # {} \/ DOMAIN encode_result # {})
          => (pending1 = {} /\ SeqToSet(all_scores) = ValidTriples
                /\ Len(all_scores) = Cardinality(ValidPairs))
    /\ (zip_state # "absent" \/ pc \in {"zip", "cleanup", "done"})
          => (pending2 = {} /\ DOMAIN encode_result = Children)

\* an archive written after two encoding units and three scoring units
C7_Witness ==
    /\ zip_state = "closed"
    /\ Cardinality(DOMAIN encode_result) >= 2
    /\ Cardinality(ValidPairs) >= 2

\* the frames all of whose comparisons failed
Unscored == { f \in Frames : \A pr \in AllPairs(n) : f \in {pr[1], pr[2]} => pair_score[pr] = Sentinel }

\* C8: a failed comparison adds no edge and never ends the run; a frame without a
\* valid score is a root of its own, is no child and no parent, and is copied.
C8_ScoringFailure ==
    /\ (n >= 2 /\ pc \in {"stopped", "crashed"}) => (Built /\ visited_ids = Frames)
    /\ Built =>
          /\ \A pr \in AllPairs(n) \ ValidPairs : ~ForestEdge(pr[1], pr[2])
          /\ \A f \in Unscored :
                /\ ComponentSet(f) = {f}
                /\ f \in Roots
                /\ f \notin Children
                /\ \A c \in Children : dependencies_by_id[c] # f
    /\ pc \in {"encode", "zip", "cleanup"} =>
          \A f \in Unscored : f \in DOMAIN out_files /\ out_files[f] = CopyOf(f)
    /\ zip_state = "closed" =>
          \A f \in Unscored : f \in DOMAIN zip_entries.files /\ zip_entries.files[f] = CopyOf(f)

\* one frame failed every comparison, the other two were compared, all is archived
C8_Witness ==
    /\ zip_state = "closed"
    /\ Unscored # {}
    /\ ValidPairs # {}

\* C9: with fewer than two frames nothing is submitted and nothing is produced.
C9_TooFewFrames ==
    n < 2 =>
        /\ pc \in {"scan", "stopped"}
        /\ pending1 = {} /\ all_scores = << >>
        /\ pending2 = {} /\ DOMAIN encode_result = {}
        /\ out_map = {} /\ DOMAIN out_files = {}
        /\ zip_state = "absent" /\ zip_entries = NoEntries

\* a run over a single frame has returned
C9_Witness == n = 1 /\ pc = "stopped"

\* C10: among the smallest frames of a component the root is the one of smallest id.
C10_RootTieBreak ==
    Built =>
        \A r \in Roots : \A f \in ComponentSet(r) :
            st_size[f] = st_size[r] => r <= f

\* source-over compositing of the encoded pixels atop the parent
Composite(rgba, base) ==
    [ i \in DOMAIN rgba |->
        IF rgba[i][4] = Opaque THEN << rgba[i][1], rgba[i][2], rgba[i][3] >> ELSE base[i] ]

\* C5: the encoded image is opaque exactly where child and parent differ in some
\* channel and transparent exactly where they agree, carries the child's colours
\* where it is opaque, and composited over the parent gives the child back.
C5_DiffRoundTrip ==
    diff_pc = "encoded" =>
        /\ DOMAIN sanitized_image = DOMAIN img_current
        /\ \A i \in DOMAIN sanitized_image :
              /\ sanitized_image[i][4] \in {0, Opaque}
              /\ (sanitized_image[i][4] = Opaque) <=> (img_current[i] # img_base[i])
              /\ sanitized_image[i][4] = Opaque =>
                    << sanitized_image[i][1], sanitized_image[i][2], sanitized_image[i][3] >>
                        = img_current[i]
        /\ Composite(sanitized_image, img_base) = img_current

\* ------------------------------------- DisjointSetUnion under any calls
\* the items a DisjointSetUnion is built over: the frame ids (line 154)
DsuItems == FrameIds(MaxFrames)

\* line 154: dsu = DisjointSetUnion(id_to_path.keys())
InitDsu ==
    /\ RunRestIdle
    /\ PixelsIdle
    /\ dsu_parent = DsuInit(DsuItems)
    /\ dsu_last = NoCall

\* a call dsu.find(x)
FindCall(x) ==
    /\ dsu_parent' = FindParent(dsu_parent, x)
    /\ dsu_last' = [op |-> "find", x |-> x, y |-> x, before |-> dsu_parent,
                    found |-> FindRoot(dsu_parent, x), merged |-> FALSE]
    /\ UNCHANGED << runRestVars, pixelVars >>

\* a call dsu.union(x, y)
UnionCall(x, y) ==
    /\ LET r == Union(dsu_parent, x, y)
       IN  /\ dsu_parent' = r[1]
           /\ dsu_last' = [op |-> "union", x |-> x, y |-> y, before |-> dsu_parent,
                           found |-> FindRoot(dsu_parent, x), merged |-> r[2]]
    /\ UNCHANGED << runRestVars, pixelVars >>

NextDsu ==
    \/ \E x \in DsuItems : FindCall(x)
    \/ \E x \in DsuItems, y \in DsuItems : UnionCall(x, y)

SpecDsu == InitDsu /\ [][NextDsu]_vars

\* C11: for two images of one size and mode the score is the number of positions at
\* which the images agree in every channel.
C11_SimilarityScore ==
    diff_pc = "scored" =>
        sim_score = Cardinality({ i \in DOMAIN img_current : img_current[i] = img_base[i] })

RECURSIVE ReachValid(_)
\* the frames reachable from the set S over validly scored pairs
ReachValid(S) ==
    LET more == { f \in Frames \ S : \E g \in S : ScoreOf(g, f) # Sentinel }
    IN  IF more = {} THEN S ELSE ReachValid(S \cup more)

\* the connected components of the graph of validly scored pairs
ValidComponents == { ReachValid({f}) : f \in Frames }

\* the undirected edges the forest loop recorded
ForestEdges == { pr \in AllPairs(n) : ForestEdge(pr[1], pr[2]) }

RECURSIVE SumLen(_, _)
\* the number of adjacency entries of the frames 0 .. k-1
SumLen(adj, k) == IF k = 0 THEN 0 ELSE Len(adj[k - 1]) + SumLen(adj, k - 1)

\* C12: the adjacency holds (frames - components of the validly scored graph)
\* undirected edges, each recorded once in either direction, and the forest's
\* connected components are exactly the components of the validly scored graph.
C12_ForestEdgeCount ==
    Built =>
        /\ Cardinality(ForestEdges) = n - Cardinality(ValidComponents)
        /\ SumLen(adjacency_list, n) = 2 * Cardinality(ForestEdges)
        /\ ForestEdges \subseteq ValidPairs
        /\ \A f \in Frames : ComponentSet(f) = ReachValid({f})

\* three mutually scored frames: one pair closes a cycle and is left out
C12_Witness ==
    /\ Built
    /\ n = 3
    /\ ValidPairs = AllPairs(n)
    /\ Cardinality(ForestEdges) = 2

\* the Phase 2 units started so far: the root copies made and the encodings submitted
Phase2Started == pc \in {"copy", "encode", "zip", "cleanup", "done", "crashed"}

\* C13: the Phase 2 units (one copy per entry of the root list, one encoding per key
\* of the dependency map) have pairwise different destinations: no frame is a root
\* twice, none is both root and child, a taken encoding is never pending again, and
\* in the output tree a root's file is its copy and a child's file comes from its
\* own encoding unit.
C13_NoWriteContention ==
    Phase2Started =>
        /\ Len(root_image_ids) + Cardinality(Children) = Cardinality(Roots \cup Children)
        /\ Roots \cap Children = {}
        /\ pending2 \subseteq Children
        /\ pending2 \cap DOMAIN encode_result = {}
        /\ \A f \in DOMAIN out_files :
              /\ f \in Roots => out_files[f] = CopyOf(f)
              /\ f \notin Roots =>
                    /\ f \in DOMAIN encode_result
                    /\ out_files[f] \in { DiffOf(f, dependencies_by_id[f]), Truncated(f) }

\* one root copied and two children encoded into the same output tree
C13_Witness ==
    /\ pc = "encode"
    /\ pending2 = {}
    /\ Cardinality(Children) = 2
    /\ Roots \cup Children \subseteq DOMAIN out_files

\* the run has left main()
RunEnded == pc \in {"stopped", "done", "crashed"}

\* C14: whenever the run has ended (too few frames, normal completion, or an uncaught
\* error after the directory was created) the temporary directory and its files are
\* gone; the directory is removed at no other moment, and at normal completion only
\* after the archive has been written and closed.
C14_TempCleanup ==
    /\ RunEnded => ~tmp_exists /\ out_map = {} /\ out_files = EmptyMap
    /\ ~tmp_exists => RunEnded
    /\ pc = "done" => zip_state = "closed" /\ zip_entries.map # {}

\* an uncaught error while the archive was being written: the directory is gone
C14_Witness ==
    /\ pc = "crashed"
    /\ zip_state = "open"
    /\ ~tmp_exists

\* the scoring units whose future the as_completed loop has taken
TakenPairs == IF pc = "scan" THEN {} ELSE AllPairs(n) \ pending1

\* C15: whatever the order in which the scoring futures complete, the collection
\* holds exactly one triple (score, idA, idB) for every taken pair whose score is not
\* the sentinel and nothing else; once every future is taken that is one triple per
\* validly scored pair, and the later sort keeps it a rearrangement of them.
C15_AggregationOrderFree ==
    n >= 2 =>
        /\ SeqToSet(all_scores) =
              { << pair_score[pr], pr[1], pr[2] >> : pr \in TakenPairs \cap ValidPairs }
        /\ Len(all_scores) = Cardinality(TakenPairs \cap ValidPairs)
        /\ \A i \in 1 .. Len(all_scores) : all_scores[i][1] # Sentinel

\* the pair submitted last completed first, and one comparison failed
C15_Witness ==
    /\ pc = "score"
    /\ pending1 = {}
    /\ n = 3
    /\ Len(all_scores) = 2
    /\ << all_scores[1][2], all_scores[1][3] >> = << 1, 2 >>
    /\ ValidPairs # AllPairs(n)

C17_NoOrderingDependency ==
    /\ (pc = "encode" /\ tmp_exists) =>
          \A c \in EncodedChildren :
              /\ c \in DOMAIN out_files
              /\ out_files[c] = DiffOf(c, dependencies_by_id[c])
    /\ zip_state = "closed" =>
          \A c \in EncodedChildren :
              /\ c \in DOMAIN zip_entries.files
              /\ zip_entries.files[c] = DiffOf(c, dependencies_by_id[c])
    /\ (pending2 # {} \/ DOMAIN encode_result # {}) =>
          /\ copy_idx = Len(root_image_ids) + 1
          /\ tmp_exists => \A r \in Roots : r \in DOMAIN out_files /\ out_files[r] = CopyOf(r)

\* a child was encoded while the unit of its parent, itself a child, is still pending
C17_Witness ==
    /\ pc = "encode"
    /\ \E c \in EncodedChildren :
          /\ dependencies_by_id[c] \in Children
          /\ dependencies_by_id[c] \in pending2
    /\ Roots \subseteq DOMAIN out_files

RECURSIVE LinkedTo(_, _)
\* the items joined to the set S by parent links of the map p, in either direction
LinkedTo(p, S) ==
    LET more == { b \in DOMAIN p \ S : \E a \in S : p[a] = b \/ p[b] = a }
    IN  IF more = {} THEN S ELSE LinkedTo(p, S \cup more)

\* the set of item a, and the partition, that the parent map p stands for
SetOf(p, a) == LinkedTo(p, {a})
Partition(p) == { SetOf(p, a) : a \in DOMAIN p }

\* C18: union(x, y) returns true exactly when x and y were in different sets, and
\* then those two sets are one and every other set is as before; when it returns
\* false the partition is as before; find(x) returns a representative that every
\* member of x's set has, before and after the call, and leaves the partition as it
\* was although it rewrites parent links.
C18_DsuContract ==
    LET b == dsu_last.before
        x == dsu_last.x
        y == dsu_last.y
    IN  /\ dsu_last.op = "union" =>
              /\ dsu_last.merged = (SetOf(b, x) # SetOf(b, y))
              /\ dsu_last.merged = (FindRoot(b, x) # FindRoot(b, y))
              /\ dsu_last.merged =>
                    Partition(dsu_parent) =
                        (Partition(b) \ {SetOf(b, x), SetOf(b, y)})
                            \cup {SetOf(b, x) \cup SetOf(b, y)}
              /\ ~dsu_last.merged => Partition(dsu_parent) = Partition(b)
        /\ dsu_last.op = "find" =>
              /\ dsu_last.found \in SetOf(b, x)
              /\ \A m \in SetOf(b, x) :
                    /\ FindRoot(b, m) = dsu_last.found
                    /\ FindRoot(dsu_parent, m) = dsu_last.found
              /\ Partition(dsu_parent) = Partition(b)

\* a find that compressed a path: x hung two links below its root and now hangs one
C18_Witness ==
    /\ dsu_last.op = "find"
    /\ dsu_last.before # dsu_parent
    /\ dsu_parent[dsu_last.x] = dsu_last.found

\* the (child, parent) entries of the dependency map
OrientedEdges ==
    { << c, dependencies_by_id[c] >> : c \in Children }

\* C19: the dependency map orients the spanning forest towards the roots: every
\* entry (child, parent) is a forest edge, every forest edge is the entry of exactly
\* one of its ends, every component holds exactly one root, and there are as many
\* entries as frames that are not roots.
C19_ForestOrientation ==
    Built =>
        /\ \A c \in Children : ForestEdge(c, dependencies_by_id[c])
        /\ \A pr \in ForestEdges :
              /\ << pr[1], pr[2] >> \in OrientedEdges \/ << pr[2], pr[1] >> \in OrientedEdges
              /\ ~(<< pr[1], pr[2] >> \in OrientedEdges /\ << pr[2], pr[1] >> \in OrientedEdges)
        /\ Cardinality(OrientedEdges) = Cardinality(ForestEdges)
        /\ \A f \in Frames : Cardinality(ComponentSet(f) \cap Roots) = 1
        /\ Len(root_image_ids) = Cardinality({ ComponentSet(f) : f \in Frames })
        /\ Cardinality(Children) = n - Len(root_image_ids)

\* a chain of three frames rooted at one end: the far end's parent is the middle one
C19_Witness ==
    /\ Built
    /\ n = 3
    /\ Len(root_image_ids) = 1
    /\ \E c \in Children :
          /\ dependencies_by_id[c] \in Children
          /\ ~ForestEdge(c, root_image_ids[1])

\* C20: the written archive holds the manifest, one verbatim copy per root, one
\* diff-encoded file per child whose encoding unit succeeded, and nothing else; when
\* no unit failed every frame of the manifest's image map has its file in it.
C20_ArchiveComplete ==
    zip_state = "closed" =>
        /\ zip_entries.map = { Manifest(root_image_ids, dependencies_by_id) }
        /\ DOMAIN zip_entries.files = Roots \cup EncodedChildren
        /\ \A r \in Roots : zip_entries.files[r] = CopyOf(r)
        /\ \A c \in EncodedChildren : zip_entries.files[c] = DiffOf(c, dependencies_by_id[c])
        /\ FailedChildren = {} => DOMAIN zip_entries.files = Frames

====
